---- MODULE Spec2Model ----
\* A model of hedge (src/main.rs): a URL shortener serving POST (shorten) and
\* GET (redirect) over a SQLite table urls(link TEXT PRIMARY KEY, shortlink).
\* Each request is handled by its own task on its own connection; a task runs
\* from one suspension point or SQL statement to the next in one step.
EXTENDS Integers, Sequences, FiniteSets, TLC

\* schema: TRUE once the table urls exists in ./urls.db_3
\* urls:   the rows of table urls, in rowid (insertion) order
\* task:   per task: where the handler stands, its request, its outcome
\* issued: history: the <<link, id>> pairs shorten has returned with Ok
VARIABLES schema, urls, task, issued

vars == <<schema, urls, task, issued>>

\* ---------------------------------------------------------------- bounds
NumTasks == 2      \* requests handled concurrently
MaxSym == 1        \* the generator's symbols are drawn from 0..MaxSym
MaxLinkLen == 1    \* submitted links have 0..MaxLinkLen characters
MaxFields == 2     \* a request body has 0..MaxFields fields

\* ------------------------------------------------------- program constants
IdLen == 4         \* nanoid!(4)
Slash == 64        \* the path separator, a symbol outside the id symbols

Tasks == 1..NumTasks

\* the generator's alphabet: 64 symbols, here by their index
Alphabet == 0..(Slash - 1)

\* variant: nanoid!(3)
NanoIds_Short == {[i \in 1..(IdLen - 1) |-> s] : s \in 0..MaxSym}

\* nanoid!(4): IdLen symbols; the model draws ids made of one repeated symbol
NanoIds == {[i \in 1..IdLen |-> s] : s \in 0..MaxSym}

Links == {[i \in 1..n |-> "h"] : n \in 0..MaxLinkLen}

\* GET candidates: issued-looking ids, their proper prefixes, the empty one
Candidates == NanoIds \cup {SubSeq(id, 1, n) : id \in NanoIds, n \in {0, IdLen - 1}}

Paths == {<<Slash>> \o c : c \in Candidates}

PostPaths == {<<Slash>>} \cup {<<Slash>> \o [i \in 1..IdLen |-> 0]}

\* a body is a sequence of decoded form fields <<name, text>>
Fields == ({"shorten"} \X Links) \cup {<<"other", [i \in 1..MaxLinkLen |-> "h"]>>}

Bodies == UNION {[1..n -> Fields] : n \in 0..MaxFields}

NoBody == <<>>

Headers == [method : {"POST"}, path : PostPaths, boundary : BOOLEAN]
             \cup [method : {"GET", "PUT"}, path : Paths, boundary : {FALSE}]

\* ------------------------------------------------------------ responses
NoResp == [status |-> 0, ctype |-> "", location |-> <<>>, body |-> <<>>]

\* variant: the short id is left out of the body
respond_with_shortlink_Empty(shortlink) ==
  [status |-> 200, ctype |-> "text/html", location |-> <<>>, body |-> <<>>]

\* respond_with_shortlink
respond_with_shortlink(shortlink) ==
  [status |-> 200, ctype |-> "text/html", location |-> <<>>, body |-> shortlink]

\* respond_with_status, and the Response::builder() calls with Body::empty()
respond_with_status(s) ==
  [status |-> s, ctype |-> "", location |-> <<>>, body |-> <<>>]

\* the 301 of the GET arm
respond_redirect(l) ==
  [status |-> 301, ctype |-> "text/html", location |-> <<l>>,
   body |-> <<"You will be redirected to: ", l, ". If not, click the link.">>]

\* ---------------------------------------------------------------- store
\* the rows a "select * from urls where <col> = ?1" yields, in rowid order
RowsWhereLink(rows, l) == SelectSeq(rows, LAMBDA r : r.link = l)

RowsWhereShortlink(rows, s) == SelectSeq(rows, LAMBDA r : r.shortlink = s)

\* variant: a table whose link column is no key
InsertAllowed_NoKey(rows, l) == TRUE

\* insert into urls (link, shortlink): link is the PRIMARY KEY, shortlink is
\* only NOT NULL, so the insert is rejected iff a row with this link exists
InsertAllowed(rows, l) == RowsWhereLink(rows, l) = <<>>

\* variant: an insert that replaces the table's rows
InsertRow_Replace(rows, l, s) == <<[link |-> l, shortlink |-> s]>>

\* the row the insert adds gets the next rowid
InsertRow(rows, l, s) == Append(rows, [link |-> l, shortlink |-> s])

\* get_link: Some(column 0 of the first row whose shortlink matches) or None
get_link(url, rows) ==
  LET found == RowsWhereShortlink(rows, url)
  IN  IF found # <<>> THEN <<found[1].link>> ELSE <<>>

\* ------------------------------------------------------------- decoding
\* variant: a pair with an empty value counts as no pair
ParamsGet_NonEmpty(body, key) ==
  LET hits == SelectSeq(body, LAMBDA f : f[1] = key /\ f[2] # <<>>)
  IN  IF hits = <<>> THEN <<>> ELSE <<hits[Len(hits)][2]>>

\* form_urlencoded::parse(..).collect::<HashMap>() then params.get("shorten"):
\* a later pair with the same key replaces an earlier one
ParamsGet(body, key) ==
  LET hits == SelectSeq(body, LAMBDA f : f[1] = key)
  IN  IF hits = <<>> THEN <<>> ELSE <<hits[Len(hits)][2]>>

\* variant: every field is searched for the name shorten
MultipartLink_AnyField(body) ==
  LET hits == SelectSeq(body, LAMBDA f : f[1] = "shorten")
  IN  IF hits = <<>> THEN <<>> ELSE <<hits[1][2]>>

\* process_multipart: only m.next_field() is looked at
MultipartLink(body) ==
  IF body # <<>> /\ body[1][1] = "shorten" THEN <<body[1][2]>> ELSE <<>>

\* ------------------------------------------------------------------ Init
Idle == [pc |-> "idle", req |-> [method |-> "", path |-> <<>>, boundary |-> FALSE],
         body |-> NoBody, stalled |-> FALSE, link |-> <<>>, err |-> "",
         resp |-> NoResp]

Init ==
  /\ schema = FALSE
  /\ urls = <<>>
  /\ task = [t \in Tasks |-> Idle]
  /\ issued = {}

\* ------------------------------------------------------------- handlers
\* a task slot is free for the next request
Free(t) == task[t].pc = "idle"

Fresh(h) == [Idle EXCEPT !.req = h]

Done(rec, r) == [rec EXCEPT !.pc = "done", !.resp = r]

\* variant: the error is swallowed and the request answered as not found
Failed_Masked(rec, e) ==
  [Idle EXCEPT !.pc = "done", !.err = e, !.link = rec.link,
               !.req = rec.req, !.resp = respond_with_status(404)]

\* an Err or a panic ends the request with no response; of the request, the
\* record keeps the link shorten was called with
Failed(rec, e) == [Idle EXCEPT !.pc = "failed", !.err = e, !.link = rec.link]

\* variant: row.get(0), the link column, is returned
shorten_lookup_Column0(url, rows) ==
  LET found == RowsWhereLink(rows, url)
  IN  IF found # <<>> THEN <<found[1].link>> ELSE <<>>

\* shorten, lines 26-29: the select by link; <<id>> when a row exists
shorten_lookup(url, rows) ==
  LET found == RowsWhereLink(rows, url)
  IN  IF found # <<>> THEN <<found[1].shortlink>> ELSE <<>>

\* the link the POST arm extracts from the body, <<>> when there is none
ExtractLink(boundary, body) ==
  IF boundary THEN MultipartLink(body) ELSE ParamsGet(body, "shorten")

\* variant: the two answers exchanged
NoLinkResponse_Swapped(boundary) ==
  IF boundary THEN respond_with_status(422) ELSE respond_with_status(200)

\* what the POST arm answers when no link was extracted
NoLinkResponse(boundary) ==
  IF boundary THEN respond_with_status(200) ELSE respond_with_status(422)

\* variant: the leading separator is not stripped
GetResponse_WholePath(path, rows) ==
  LET link == get_link(path, rows)
  IN  IF link # <<>> THEN respond_redirect(link[1]) ELSE respond_with_status(404)

\* the GET arm: the candidate is the path without its first character
GetResponse(path, rows) ==
  LET link == get_link(Tail(path), rows)
  IN  IF link # <<>> THEN respond_redirect(link[1]) ELSE respond_with_status(404)

\* variant: the table is created anew on every open
init_db_Recreate(rows) == <<>>

\* init_db: CREATE TABLE IF NOT EXISTS leaves the rows of an existing table
init_db(rows) == rows

\* init_db fails (open or create table): the unwrap at line 74 panics
InitDbFail(t) ==
  /\ Free(t)
  /\ task' = [task EXCEPT ![t] = Failed(Idle, "init_db")]
  /\ UNCHANGED <<schema, urls, issued>>

\* variant: the await of the body gives up waiting and returns
BodyReady_Timeout(rec) == TRUE

\* to_bytes(req).await, m.next_field().await and field.text().await return
\* once the client has delivered the body (or the stream has failed); there
\* is no timeout
BodyReady(rec) == ~rec.stalled

\* POST: init_db, the boundary is parsed, the body is awaited; the client
\* may stall and never deliver it
ServePost(t) ==
  /\ Free(t)
  /\ \E h \in Headers : \E st \in BOOLEAN :
       /\ h.method = "POST"
       /\ task' = [task EXCEPT ![t] = [Fresh(h) EXCEPT !.pc = "body", !.stalled = st]]
  /\ schema' = TRUE
  /\ urls' = init_db(urls)
  /\ UNCHANGED issued

\* GET: init_db, get_link, 301 or 404
ServeGet(t) ==
  /\ Free(t)
  /\ \E h \in Headers :
       /\ h.method = "GET"
       /\ task' = [task EXCEPT ![t] =
            Done(Fresh(h), GetResponse(h.path, init_db(urls)))]
  /\ schema' = TRUE
  /\ urls' = init_db(urls)
  /\ UNCHANGED issued

\* GET whose query fails (link.unwrap() at line 106 panics), or whose 301
\* cannot be built (the link is no valid header value: Err)
ServeGetFail(t) ==
  /\ Free(t)
  /\ \E h \in Headers :
       /\ h.method = "GET"
       /\ task' = [task EXCEPT ![t] = Failed(Fresh(h), "get_link")]
  /\ schema' = TRUE
  /\ urls' = init_db(urls)
  /\ UNCHANGED issued

\* the bodies sent with a method that is neither POST nor GET
OtherBodies == {b \in Bodies : Len(b) <= 1}

\* variant: the fallback arm answers 405 Method Not Allowed
OtherResponse_405 == respond_with_status(405)

\* the fallback arm of the match on the method, lines 121-125
OtherResponse == respond_with_status(404)

\* any other method: init_db, 404; the body that came with it is never read
ServeOther(t) ==
  /\ Free(t)
  /\ \E h \in Headers : \E b \in OtherBodies :
       /\ h.method \notin {"POST", "GET"}
       /\ task' = [task EXCEPT ![t] = Done([Fresh(h) EXCEPT !.body = b], OtherResponse)]
  /\ schema' = TRUE
  /\ urls' = init_db(urls)
  /\ UNCHANGED issued

\* the body has arrived and holds no link to shorten: 422, or 200 and empty
BodyNoLink(t) ==
  /\ task[t].pc = "body"
  /\ BodyReady(task[t])
  /\ \E b \in Bodies :
       /\ ExtractLink(task[t].req.boundary, b) = <<>>
       /\ task' = [task EXCEPT ![t] =
            Done([@ EXCEPT !.body = b], NoLinkResponse(task[t].req.boundary))]
  /\ UNCHANGED <<schema, urls, issued>>

\* the body has arrived, shorten's select finds the link: its id is returned
BodyFound(t) ==
  /\ task[t].pc = "body"
  /\ BodyReady(task[t])
  /\ \E b \in Bodies :
       LET l == ExtractLink(task[t].req.boundary, b) IN
       /\ l # <<>>
       /\ shorten_lookup(l[1], urls) # <<>>
       /\ task' = [task EXCEPT ![t] =
            Done([@ EXCEPT !.body = b, !.link = l],
                 respond_with_shortlink(shorten_lookup(l[1], urls)[1]))]
       /\ issued' = issued \cup {<<l[1], shorten_lookup(l[1], urls)[1]>>}
  /\ UNCHANGED <<schema, urls>>

\* the body has arrived, shorten's select finds no row: the insert is next
BodyAbsent(t) ==
  /\ task[t].pc = "body"
  /\ BodyReady(task[t])
  /\ \E b \in Bodies :
       LET l == ExtractLink(task[t].req.boundary, b) IN
       /\ l # <<>>
       /\ shorten_lookup(l[1], urls) = <<>>
       /\ task' = [task EXCEPT ![t] = [@ EXCEPT !.pc = "insert", !.body = b, !.link = l]]
  /\ UNCHANGED <<schema, urls, issued>>

\* the body stream or the multipart decoding fails: Err out of the handler
BodyFail(t) ==
  /\ task[t].pc = "body"
  /\ BodyReady(task[t])
  /\ task' = [task EXCEPT ![t] = Failed(@, "decode")]
  /\ UNCHANGED <<schema, urls, issued>>

\* shorten's prepare/query fails after a link was extracted
SelectFail(t) ==
  /\ task[t].pc = "body"
  /\ BodyReady(task[t])
  /\ \E b \in Bodies :
       LET l == ExtractLink(task[t].req.boundary, b) IN
       /\ l # <<>>
       /\ task' = [task EXCEPT ![t] = Failed([@ EXCEPT !.body = b, !.link = l], "select")]
  /\ UNCHANGED <<schema, urls, issued>>

\* variant: a generator that retries until the id is no stored shortlink
nanoid_Unused(rows) == NanoIds \ {rows[i].shortlink : i \in 1..Len(rows)}

\* the ids nanoid!(4) can return when the table holds rows: the table is
\* not consulted
nanoid(rows) == NanoIds

\* shorten, lines 31-36, with new_id the id the generator returned
InsertWith(t, new_id) ==
  /\ task[t].pc = "insert"
  /\ InsertAllowed(urls, task[t].link[1])
  /\ new_id \in nanoid(urls)
  /\ urls' = InsertRow(urls, task[t].link[1], new_id)
  /\ task' = [task EXCEPT ![t] =
       Done(@, respond_with_shortlink(new_id))]
  /\ issued' = issued \cup {<<task[t].link[1], new_id>>}
  /\ UNCHANGED schema

\* shorten, lines 31-36: a new id is generated and inserted
Insert(t) == \E new_id \in NanoIds : InsertWith(t, new_id)

\* the insert is rejected by the primary key: Err out of the handler
InsertRejected(t) ==
  /\ task[t].pc = "insert"
  /\ ~InsertAllowed(urls, task[t].link[1])
  /\ task' = [task EXCEPT ![t] = Failed(@, "constraint")]
  /\ UNCHANGED <<schema, urls, issued>>

\* the insert fails for another reason (I/O, busy database)
InsertFail(t) ==
  /\ task[t].pc = "insert"
  /\ task' = [task EXCEPT ![t] = Failed(@, "insert")]
  /\ UNCHANGED <<schema, urls, issued>>

\* the response has been written, or the failed connection dropped
Close(t) ==
  /\ task[t].pc \in {"done", "failed"}
  /\ task' = [task EXCEPT ![t] = Idle]
  /\ UNCHANGED <<schema, urls, issued>>

Next ==
  \E t \in Tasks :
    \/ Close(t)
    \/ InitDbFail(t)
    \/ ServePost(t)
    \/ ServeGet(t)
    \/ ServeGetFail(t)
    \/ ServeOther(t)
    \/ BodyNoLink(t)
    \/ BodyFound(t)
    \/ BodyAbsent(t)
    \/ BodyFail(t)
    \/ SelectFail(t)
    \/ Insert(t)
    \/ InsertRejected(t)
    \/ InsertFail(t)

Spec == Init /\ [][Next]_vars

\* the steps a task takes once its body is there, and its insert
BodyStep(t) ==
  BodyNoLink(t) \/ BodyFound(t) \/ BodyAbsent(t) \/ BodyFail(t) \/ SelectFail(t)

InsertStep(t) == Insert(t) \/ InsertRejected(t) \/ InsertFail(t)

\* the executor runs every task that can go on: a task whose await is
\* pending yields, and the statements of shorten return
FairSpec ==
  Spec /\ \A t \in Tasks : WF_vars(BodyStep(t)) /\ WF_vars(InsertStep(t))

\* ---------------------------------------------------------------- claims
RowSet(rows) == {rows[i] : i \in 1..Len(rows)}

\* task t has ended with a response to a POST that shortened link l
Shortened(t, l) ==
  /\ task[t].pc = "done"
  /\ task[t].req.method = "POST"
  /\ task[t].link = <<l>>

\* C1: once shorten(L) has returned S, every successful shorten(L) returns S,
\* and the store holds exactly one mapping whose original_link is L.
C1_Idempotent ==
  /\ \A p \in issued : \A q \in issued : p[1] = q[1] => p[2] = q[2]
  /\ \A p \in issued : Len(RowsWhereLink(urls, p[1])) = 1

\* the same link was submitted twice and both submissions were answered
C1_Witness ==
  \E l \in Links :
    /\ \A t \in Tasks : Shortened(t, l)
    /\ \A t \in Tasks : task[t].resp.body = task[1].resp.body
    /\ Len(RowsWhereLink(urls, l)) = 1

\* C2: for every link L that shorten has mapped to S, in every later state
\* get_link(S) returns exactly L.
C2_RoundTrip == \A p \in issued : get_link(p[2], urls) = <<p[1]>>

\* C3: no two mappings share the same original_link, under every
\* interleaving of the select and the insert of concurrent requests.
C3_LinkUnique ==
  \A i \in 1..Len(urls) : \A j \in 1..Len(urls) :
    urls[i].link = urls[j].link => i = j

\* two requests saw the link absent; one inserted, the other was rejected
C3_Witness ==
  \E t \in Tasks : \E u \in Tasks :
    /\ task[t].pc = "failed" /\ task[t].err = "constraint"
    /\ task[u].pc = "done" /\ task[u].link = task[t].link
    /\ Len(RowsWhereLink(urls, task[t].link[1])) = 1

\* C4: no two mappings with different original_link carry the same short_id.
C4_ShortIdUnique ==
  \A i \in 1..Len(urls) : \A j \in 1..Len(urls) :
    urls[i].shortlink = urls[j].shortlink => urls[i].link = urls[j].link

\* C5: a mapping in the store stays in the store, unchanged, whatever
\* request is handled next; the set of mappings only grows.
C5_NeverRemoved ==
  [][/\ RowSet(urls) \subseteq RowSet(urls')
     /\ Len(urls') >= Len(urls)
     /\ \A i \in 1..Len(urls) : urls'[i] = urls[i]]_vars

\* with mappings stored, a POST was answered and another request failed
C5_Witness ==
  /\ Len(urls) = Cardinality(Links)
  /\ \E t \in Tasks : Shortened(t, urls[1].link)
  /\ \E t \in Tasks : task[t].pc = "failed"

\* task t ends a request with a response in this step
Responds(t) == task[t].pc # "done" /\ task'[t].pc = "done"

HasKey(body, key) == \E i \in 1..Len(body) : body[i][1] = key

\* C6: two requests that each found the same link absent both end with 200
\* and the same short id (no store fault assumed).
C6_AtomicCheckThenAct ==
  \A t \in Tasks : \A u \in Tasks :
    ( /\ t # u
      /\ task[t].pc \in {"done", "failed"} /\ task[u].pc \in {"done", "failed"}
      /\ task[t].link # <<>> /\ task[t].link = task[u].link
      /\ task[t].err \notin {"select", "insert"}
      /\ task[u].err \notin {"select", "insert"} )
    => /\ task[t].pc = "done" /\ task[u].pc = "done"
       /\ task[t].resp.status = 200 /\ task[u].resp.status = 200
       /\ task[t].resp.body = task[u].resp.body

\* C7: a GET of /candidate is answered 301 iff a mapping has exactly that
\* short_id, with the Location of such a mapping; otherwise 404, empty body.
C7_GetRedirectOr404 ==
  [][\A t \in Tasks :
       (Responds(t) /\ task'[t].req.method = "GET") =>
         LET c == Tail(task'[t].req.path)
             r == task'[t].resp
             hit == {i \in 1..Len(urls) : urls[i].shortlink = c}
         IN  /\ r.status = 301 <=> hit # {}
             /\ r.status = 301 => \E i \in hit : r.location = <<urls[i].link>>
             /\ r.status # 301 => r = respond_with_status(404)]_vars

\* one GET was redirected, another one for a prefix of that id got 404
C7_Witness ==
  \E t \in Tasks : \E u \in Tasks :
    /\ task[t].pc = "done" /\ task[t].req.method = "GET"
    /\ task[t].resp.status = 301
    /\ task[u].pc = "done" /\ task[u].req.method = "GET"
    /\ task[u].resp.status = 404
    /\ Tail(task[u].req.path) = SubSeq(Tail(task[t].req.path), 1, IdLen - 1)

\* C8: a POST, on any path, from which link L is extracted is answered 200
\* with a short id S as body, (L, S) being in the store at that moment; a
\* link already stored gets its stored id and no row is added.
C8_PostShortens ==
  [][\A t \in Tasks :
       LET l == ExtractLink(task'[t].req.boundary, task'[t].body)
           r == task'[t].resp
       IN  (Responds(t) /\ task'[t].req.method = "POST" /\ l # <<>>) =>
             /\ r.status = 200 /\ r.ctype = "text/html" /\ r.location = <<>>
             /\ r.body \in NanoIds
             /\ [link |-> l[1], shortlink |-> r.body] \in RowSet(urls')
             /\ \A i \in 1..Len(urls) :
                  urls[i].link = l[1] => r.body = urls[i].shortlink /\ urls' = urls]_vars

\* the same link was shortened by POSTs on two different paths
C8_Witness ==
  \E l \in Links :
    /\ \A t \in Tasks : Shortened(t, l) /\ task[t].resp.status = 200
    /\ task[1].req.path # task[2].req.path
    /\ [link |-> l, shortlink |-> task[1].resp.body] \in RowSet(urls)

\* C9: a POST without boundary whose body has no key shorten is answered
\* 422 with empty body and leaves the mappings unchanged.
C9_Unprocessable ==
  [][\A t \in Tasks :
       ( /\ Responds(t) /\ task'[t].req.method = "POST"
         /\ ~task'[t].req.boundary
         /\ ~HasKey(task'[t].body, "shorten") ) =>
         /\ task'[t].resp = respond_with_status(422)
         /\ urls' = urls]_vars

\* a urlencoded POST with only another key was answered, mappings existing
C9_Witness ==
  \E t \in Tasks :
    /\ task[t].pc = "done" /\ task[t].req.method = "POST"
    /\ ~task[t].req.boundary
    /\ task[t].body # <<>> /\ ~HasKey(task[t].body, "shorten")
    /\ task[t].resp.status = 422
    /\ urls # <<>>

\* C10: a multipart POST is decided by its first field alone: named shorten,
\* its text is shortened and the id returned with 200; otherwise 200 with
\* empty body and the mappings unchanged.
C10_MultipartFirstField ==
  [][\A t \in Tasks :
       (Responds(t) /\ task'[t].req.method = "POST" /\ task'[t].req.boundary) =>
         LET b == task'[t].body
             r == task'[t].resp
         IN  IF b # <<>> /\ b[1][1] = "shorten"
             THEN /\ task'[t].link = <<b[1][2]>>
                  /\ r.status = 200 /\ r.body \in NanoIds
                  /\ [link |-> b[1][2], shortlink |-> r.body] \in RowSet(urls')
             ELSE /\ r = respond_with_status(200)
                  /\ urls' = urls]_vars

\* a multipart POST whose second field is named shorten got the empty 200,
\* another whose first field is named shorten got an id
C10_Witness ==
  \E t \in Tasks : \E u \in Tasks :
    /\ task[t].pc = "done" /\ task[t].req.boundary
    /\ Len(task[t].body) = 2
    /\ task[t].body[1][1] = "other" /\ task[t].body[2][1] = "shorten"
    /\ task[t].resp = respond_with_status(200)
    /\ task[u].pc = "done" /\ task[u].req.boundary
    /\ task[u].body # <<>> /\ task[u].body[1][1] = "shorten"
    /\ task[u].resp.body \in NanoIds

\* C11: a request whose method is neither POST nor GET is answered 404 with
\* empty body, for every path and body, and leaves the mappings unchanged.
C11_OtherMethod404 ==
  [][\A t \in Tasks :
       (Responds(t) /\ task'[t].req.method \notin {"POST", "GET"}) =>
         /\ task'[t].resp = respond_with_status(404)
         /\ urls' = urls]_vars

\* a PUT on the path of a stored id, with a body naming shorten, got 404
C11_Witness ==
  \E t \in Tasks :
    /\ task[t].pc = "done" /\ task[t].req.method = "PUT"
    /\ HasKey(task[t].body, "shorten")
    /\ get_link(Tail(task[t].req.path), urls) # <<>>
    /\ task[t].resp = respond_with_status(404)

\* the errors of the statements of shorten and get_link
StoreErrors == {"select", "insert", "constraint", "get_link"}

\* C12: when the select or the insert of shorten fails, or the query of
\* get_link fails, the request ends in a failure (no 200, 301 or 404 is
\* answered) and the mappings are unchanged by that request.
C12_StoreFailureNotMasked ==
  [][\A t \in Tasks :
       (task[t].err = "" /\ task'[t].err \in StoreErrors) =>
         /\ task'[t].pc = "failed"
         /\ task'[t].resp = NoResp
         /\ urls' = urls
         /\ issued' = issued]_vars

\* an insert failed and left no row for its link, and a GET's query failed
C12_Witness ==
  \E t \in Tasks : \E u \in Tasks :
    /\ task[t].pc = "failed" /\ task[t].err = "insert"
    /\ RowsWhereLink(urls, task[t].link[1]) = <<>>
    /\ task[u].pc = "failed" /\ task[u].err = "get_link"
    /\ urls # <<>>

\* C13: shorten, called with a link that is not stored, inserts whatever id
\* the generator returned and succeeds, also when that id is already the
\* short_id of a mapping for another link: no retry, no rejection.
C13_NoCollisionCheck ==
  [][/\ \A t \in Tasks :
          (task[t].pc = "insert" /\ RowsWhereLink(urls, task[t].link[1]) = <<>>) =>
            \A id \in NanoIds : ENABLED InsertWith(t, id)
     /\ \A t \in Tasks :
          (task[t].pc = "insert" /\ Responds(t)) =>
            /\ task'[t].resp.status = 200
            /\ urls' = Append(urls, [link |-> task[t].link[1],
                                     shortlink |-> task'[t].resp.body])]_vars

\* a POST was answered 200 with an id that another link's mapping carries
C13_Witness ==
  \E t \in Tasks : \E i \in 1..Len(urls) : \E j \in 1..Len(urls) :
    /\ task[t].pc = "done" /\ task[t].resp.status = 200
    /\ i < j
    /\ task[t].link = <<urls[j].link>>
    /\ task[t].resp.body = urls[j].shortlink
    /\ urls[i].shortlink = urls[j].shortlink
    /\ urls[i].link # urls[j].link

\* C14: the short_id of every mapping is exactly 4 symbols of the 64-symbol
\* alphabet; so a GET whose candidate is not 4 characters long gets 404.
C14_IdShape ==
  [][/\ \A i \in 1..Len(urls') :
          /\ Len(urls'[i].shortlink) = IdLen
          /\ \A k \in 1..IdLen : urls'[i].shortlink[k] \in Alphabet
     /\ \A t \in Tasks :
          ( /\ Responds(t) /\ task'[t].req.method = "GET"
            /\ Len(Tail(task'[t].req.path)) # IdLen ) =>
            task'[t].resp = respond_with_status(404)]_vars

\* with every link stored, a GET for the first 3 symbols of an id got 404
C14_Witness ==
  /\ Len(urls) = Cardinality(Links)
  /\ \E t \in Tasks : \E i \in 1..Len(urls) :
       /\ task[t].pc = "done" /\ task[t].req.method = "GET"
       /\ Tail(task[t].req.path) = SubSeq(urls[i].shortlink, 1, IdLen - 1)
       /\ task[t].resp.status = 404

\* C15: a GET never changes the mappings, whether it answers 301 or 404, and
\* the init_db of every request leaves the mappings as they are; so a GET
\* asked again gets the answer it got: the answer given is the one a GET in
\* the resulting state gets, and a 301 once given is given again.
C15_GetReadOnly ==
  [][\A t \in Tasks :
       /\ (task[t].pc = "idle" /\ task'[t].pc # "idle") => urls' = urls
       /\ (Responds(t) /\ task'[t].req.method = "GET") =>
            /\ urls' = urls
            /\ task'[t].resp = GetResponse(task'[t].req.path, urls')
            /\ \A u \in Tasks :
                 ( /\ u # t /\ task[u].pc = "done"
                   /\ task[u].req = task'[t].req
                   /\ task[u].resp.status = 301 ) =>
                   task'[t].resp = task[u].resp]_vars

\* the same GET was answered twice with the same 301
C15_Witness ==
  /\ urls # <<>>
  /\ \A t \in Tasks :
       /\ task[t].pc = "done" /\ task[t].req.method = "GET"
       /\ task[t].resp.status = 301
       /\ task[t].req = task[1].req
       /\ task[t].resp = task[1].resp

\* C16: a urlencoded POST is answered 422 iff the key shorten is absent; with
\* the key present and its value empty, the empty string is shortened like
\* any link: its mapping is created on first submission, and a 4-character
\* id is returned with 200.
C16_EmptyValueShortened ==
  [][\A t \in Tasks :
       ( /\ Responds(t) /\ task'[t].req.method = "POST"
         /\ ~task'[t].req.boundary ) =>
         LET b == task'[t].body
             r == task'[t].resp
             row == [link |-> <<>>, shortlink |-> r.body]
         IN  /\ r.status = 422 <=> ~HasKey(b, "shorten")
             /\ ( /\ HasKey(b, "shorten")
                  /\ \A i \in 1..Len(b) : b[i][1] = "shorten" => b[i][2] = <<>> ) =>
                  /\ r.status = 200
                  /\ Len(r.body) = IdLen
                  /\ row \in RowSet(urls')
                  /\ RowsWhereLink(urls, <<>>) = <<>> => urls' = Append(urls, row)]_vars

\* a urlencoded POST of shorten= (empty value) was answered 200 with the id
\* of the mapping of the empty link
C16_Witness ==
  \E t \in Tasks :
    /\ task[t].pc = "done" /\ task[t].req.method = "POST"
    /\ ~task[t].req.boundary
    /\ task[t].body = <<<<"shorten", <<>>>>>>
    /\ task[t].resp.status = 200
    /\ [link |-> <<>>, shortlink |-> task[t].resp.body] \in RowSet(urls)

\* C17: a POST whose body stalls for ever gets no response and changes no
\* mapping, and it holds up no other request: every request whose body is
\* delivered ends, with its response unless its decoding or store fails.
C17_StallBlocksOnlyItself ==
  /\ [][\A t \in Tasks :
          (task[t].pc = "body" /\ task[t].stalled) =>
            /\ task'[t] = task[t]
            /\ task[t].resp = NoResp]_vars
  /\ \A t \in Tasks :
       (task[t].pc \in {"body", "insert"} /\ ~task[t].stalled)
         ~> (task[t].pc \in {"done", "failed"})

\* while one POST is stalled, another POST was answered and added a mapping
C17_Witness ==
  \E t \in Tasks : \E u \in Tasks :
    /\ task[t].pc = "body" /\ task[t].stalled
    /\ task[u].pc = "done" /\ task[u].req.method = "POST"
    /\ task[u].resp.status = 200
    /\ task[u].link # <<>>
    /\ [link |-> task[u].link[1], shortlink |-> task[u].resp.body] \in RowSet(urls)

====
